---- MODULE Spec2Model ----
(***************************************************************************)
(* Model of bot.py (SolanaWalletAnalyzer): the price lookup with its       *)
(* cache (token_price), the FIFO lot accounting (calculate), the paging    *)
(* normalizer (wallet_history) and the screener (main).                    *)
(*                                                                         *)
(* Quantities and prices are integers (amounts in the token's smallest     *)
(* unit, prices in whole USD units).  A value that Python computes by a    *)
(* true division is kept exact: the per-disposal holding time, whose only  *)
(* divisor is the disposal's size, is stored multiplied by Scale, and the  *)
(* two reported ratios are stored as a numerator and a denominator.        *)
(***************************************************************************)
EXTENDS Integers, Sequences, FiniteSets, TLC

\* ------------------------------------------------------------------ bounds
MaxEvents == 3
MaxAmt == 2
MaxPrice == 2
MaxDt == 1

Tokens == {"A", "B"}

\* ----------------------------------------------------------------- helpers
Min(a, b) == IF a <= b THEN a ELSE b
Max(a, b) == IF a >= b THEN a ELSE b

RECURSIVE Fact(_)
Fact(k) == IF k <= 1 THEN 1 ELSE k * Fact(k - 1)

\* Every disposal size 1..MaxAmt divides Scale, so x / size is exact as
\* (x * Scale) \div size.
Scale == Fact(MaxAmt)

RECURSIVE SumSeq(_)
SumSeq(s) == IF s = <<>> THEN 0 ELSE Head(s) + SumSeq(Tail(s))

\* A JSON "value" that is not a number (null, a string): Python raises
\* TypeError when it is compared with 0 or subtracted from.
NotANumber == 0 - 1
IsNumber(p) == p # NotANumber

\* ------------------------------------------------------------ fetch (106-116)
\* What one remote price request can come to:
\*   raise      session.get or response.json() raises (network error, body
\*              that is not JSON): fetch has no try, the exception leaves it
\*   none       status # 200: fetch returns None
\*   nosuccess  status 200, "success" false or absent
\*   malformed  status 200, success, but data["data"] is no dict
\*   ok         status 200, success, data["data"].get("value", 0) = value
PriceResponses ==
    {[kind |-> k, value |-> 0] : k \in {"raise", "none", "nosuccess", "malformed"}}
    \cup {[kind |-> "ok", value |-> v] : v \in (0..MaxPrice) \cup {NotANumber}}

NoFetch == [kind |-> "cached", value |-> 0]

EmptyDict == [k \in {} |-> 0]

\* str(timestamp)
Str(timestamp) == ToString(timestamp)

\* ------------------------------------------------------ token_price (134-164)
Cached(prices, timestamp, token) ==
    /\ token \in DOMAIN prices
    /\ Str(timestamp) \in DOMAIN prices[token]

TokenPriceNoStore(prices, timestamp, token, data) ==
    LET ts == Str(timestamp)
        p1 == IF token \in DOMAIN prices THEN prices
              ELSE prices @@ (token :> EmptyDict)
    IN  IF ts \in DOMAIN p1[token]
        THEN [token_prices |-> p1, price |-> p1[token][ts],
              fetched |-> FALSE, raised |-> FALSE]
        ELSE [token_prices |-> p1,
              price |-> IF data.kind = "ok" THEN data.value ELSE 0,
              fetched |-> TRUE, raised |-> data.kind = "raise"]

\* Returns the cache after the call, the price returned, whether a remote
\* request was issued and whether the call raised instead of returning.
TokenPrice(prices, timestamp, token, data) ==
    LET ts == Str(timestamp)
        p1 == IF token \in DOMAIN prices THEN prices
              ELSE prices @@ (token :> EmptyDict)
    IN  IF ts \in DOMAIN p1[token]
        THEN [token_prices |-> p1, price |-> p1[token][ts],
              fetched |-> FALSE, raised |-> FALSE]
        ELSE CASE data.kind = "raise" ->
                    [token_prices |-> p1, price |-> 0,
                     fetched |-> TRUE, raised |-> TRUE]
               [] data.kind = "ok" ->
                    [token_prices |-> [p1 EXCEPT ![token] = (ts :> data.value) @@ @],
                     price |-> data.value, fetched |-> TRUE, raised |-> FALSE]
               [] OTHER ->
                    [token_prices |-> p1, price |-> 0,
                     fetched |-> TRUE, raised |-> FALSE]

\* The responses a lookup can meet: none is consumed on a cache hit.
ResponsesFor(prices, timestamp, token) ==
    IF Cached(prices, timestamp, token) THEN {NoFetch} ELSE PriceResponses

\* save_data (61-71): the whole mapping is written over the file
PersistNever(file_content, prices, saved) == file_content
Persist(file_content, prices, saved) == IF saved THEN prices ELSE file_content

\* token_price up to its suspension, lines 144-153: the token's entry is
\* created and saved, the key is looked up, and on a miss the request is sent.
\* Nothing else runs between these lines (no await).
TokenPriceBeginReset(prices, timestamp, token) ==
    LET p1 == (token :> EmptyDict) @@ prices
    IN  [token_prices |-> p1, saved |-> TRUE,
         hit |-> Str(timestamp) \in DOMAIN p1[token],
         price |-> IF Str(timestamp) \in DOMAIN p1[token]
                   THEN p1[token][Str(timestamp)] ELSE 0]
TokenPriceBegin(prices, timestamp, token) ==
    LET p1 == IF token \in DOMAIN prices THEN prices
              ELSE prices @@ (token :> EmptyDict)
    IN  [token_prices |-> p1, saved |-> token \notin DOMAIN prices,
         hit |-> Str(timestamp) \in DOMAIN p1[token],
         price |-> IF Str(timestamp) \in DOMAIN p1[token]
                   THEN p1[token][Str(timestamp)] ELSE 0]

\* token_price from the return of the request on, lines 153-164, on the
\* cache as it is by then
TokenPriceEndMisfiled(prices, timestamp, token, data) ==
    CASE data.kind = "raise" ->
            [token_prices |-> prices, saved |-> FALSE, price |-> 0, raised |-> TRUE]
      [] data.kind = "ok" ->
            [token_prices |-> [prices EXCEPT ![token] = (Str(timestamp + 1) :> data.value) @@ @],
             saved |-> TRUE, price |-> data.value, raised |-> FALSE]
      [] OTHER ->
            [token_prices |-> prices, saved |-> FALSE, price |-> 0, raised |-> FALSE]
TokenPriceEnd(prices, timestamp, token, data) ==
    CASE data.kind = "raise" ->
            [token_prices |-> prices, saved |-> FALSE, price |-> 0, raised |-> TRUE]
      [] data.kind = "ok" ->
            [token_prices |-> [prices EXCEPT ![token] = (Str(timestamp) :> data.value) @@ @],
             saved |-> TRUE, price |-> data.value, raised |-> FALSE]
      [] OTHER ->
            [token_prices |-> prices, saved |-> FALSE, price |-> 0, raised |-> FALSE]

\* ------------------------------------------------------ calculate (202-261)
\* A lot is the tuple (token_amount, usd_value, timestamp) of line 221.
LotUndated(amount, price, time) == [amount |-> amount, price |-> price, time |-> 0]
Lot(amount, price, time) == [amount |-> amount, price |-> price, time |-> time]

\* A normalized event, the dict built at lines 189-195.  wf = FALSE is a
\* record lacking one of the keys read at lines 216-217 (KeyError).
Event(wf, token, timestamp, amount) ==
    [wf |-> wf, token |-> token, timestamp |-> timestamp, token_amount |-> amount]

NoMetrics == [total_pnl_usd |-> 0, realized_pnl |-> 0, unrealized_pnl |-> 0,
              win_rate |-> [num |-> 0, den |-> 1],
              average_holding_time_seconds |-> [num |-> 0, den |-> 1]]

\* line 212
InitCalc ==
    [pc |-> "events",
     holdings |-> [t \in Tokens |-> <<>>],
     hkeys |-> <<>>,
     realized_pnl |-> 0, unrealized_pnl |-> 0, pnl_records |-> <<>>,
     total_profit_usd |-> 0, wins |-> 0, total_sales |-> 0,
     total_holding_time |-> 0,
     ui |-> 1,
     error |-> "",
     metrics |-> NoMetrics]

\* holdings is a defaultdict(list): reading holdings[token] creates the key.
\* hkeys is the dict's key order, which line 247 iterates.
Touch(hkeys, token) ==
    IF \E i \in 1..Len(hkeys) : hkeys[i] = token THEN hkeys ELSE Append(hkeys, token)

\* line 220
KeepsLotAlways(usd_value) == usd_value >= 0
KeepsLot(usd_value) == usd_value > 0

\* lines 218-222.  r is what token_price came to.
Buy(c, ev, r) ==
    IF r.raised \/ ~IsNumber(r.price) THEN c
    ELSE IF KeepsLot(r.price)
         THEN [c EXCEPT !.holdings[ev.token] =
                            Append(@, Lot(ev.token_amount, r.price, ev.timestamp)),
                        !.hkeys = Touch(@, ev.token)]
         ELSE c

\* line 230
SellAmountWhole(amount_to_sell, buy_amount) == buy_amount
SellAmountNeed(amount_to_sell, buy_amount) == amount_to_sell
SellAmount(amount_to_sell, buy_amount) == Min(amount_to_sell, buy_amount)

\* line 232: sell_amount / original_amount_to_sell, times Scale
ShareOfRemaining(sell_amount, amount_to_sell, original_amount_to_sell) ==
    (sell_amount * Scale) \div amount_to_sell
Share(sell_amount, amount_to_sell, original_amount_to_sell) ==
    (sell_amount * Scale) \div original_amount_to_sell

\* lines 234-235
PutBackAtTail(q, lot) == Append(q, lot)
PutBack(q, lot) == <<lot>> \o q

\* line 227
MoreToSellOnly(amount_to_sell, q) == amount_to_sell > 0
MoreToMatch(amount_to_sell, q) == amount_to_sell > 0 /\ q # <<>>

\* lines 227-235: the matching loop.  err: line 229 popped from an empty
\* list (IndexError), or the subtraction of line 231 raised (the sell price
\* is not a number) after line 229 had popped the lot.  matches, partial and
\* left record the iterations made, whether line 235 put a lot back and the
\* amount_to_sell the loop ended with.
RECURSIVE SellLoop(_, _, _, _, _, _, _, _, _)
SellLoop(q, amount_to_sell, original, sell_price, timestamp, pnl_usd, holding_time, k, partial) ==
    IF MoreToMatch(amount_to_sell, q)
    THEN IF q = <<>> \/ ~IsNumber(sell_price)
         THEN [q |-> IF q = <<>> THEN q ELSE Tail(q), pnl_usd |-> pnl_usd,
               holding_time |-> holding_time, err |-> TRUE, matches |-> k,
               partial |-> partial, left |-> amount_to_sell]
         ELSE LET buy == Head(q)
                  rest == Tail(q)
                  sell_amount == SellAmount(amount_to_sell, buy.amount)
              IN  SellLoop(
                    IF buy.amount > sell_amount
                    THEN PutBack(rest, [buy EXCEPT !.amount = @ - sell_amount])
                    ELSE rest,
                    amount_to_sell - sell_amount,
                    original, sell_price, timestamp,
                    pnl_usd + (sell_price - buy.price) * sell_amount,
                    holding_time + (timestamp - buy.time)
                                     * Share(sell_amount, amount_to_sell, original),
                    k + 1,
                    partial \/ buy.amount > sell_amount)
    ELSE [q |-> q, pnl_usd |-> pnl_usd, holding_time |-> holding_time,
          err |-> FALSE, matches |-> k, partial |-> partial,
          left |-> amount_to_sell]

\* lines 224-235 for one disposal
Match(c, ev, r) ==
    SellLoop(c.holdings[ev.token], 0 - ev.token_amount, 0 - ev.token_amount,
             r.price, ev.timestamp, 0, 0, 0, FALSE)

\* lines 223-244
Sell(c, ev, r) ==
    IF r.raised THEN c
    ELSE LET s == Match(c, ev, r)
             c1 == [c EXCEPT !.total_sales = @ + 1,
                             !.hkeys = Touch(@, ev.token),
                             !.holdings[ev.token] = s.q]
         IN  IF s.err THEN c1
             ELSE [c1 EXCEPT !.realized_pnl = @ + s.pnl_usd,
                             !.pnl_records = Append(@, s.pnl_usd),
                             !.total_profit_usd = @ + s.pnl_usd,
                             !.total_holding_time = @ + s.holding_time,
                             !.wins = IF s.pnl_usd > 0 THEN @ + 1 ELSE @]

\* a / b as Python's true division: den = 0 is ZeroDivisionError
Ratio(a, b) == [num |-> a, den |-> b]

\* line 259
WinRateUnguarded(wins, total_sales) == Ratio(wins * 100, total_sales)
WinRate(wins, total_sales) ==
    IF total_sales # 0 THEN Ratio(wins * 100, total_sales) ELSE Ratio(0, 1)

\* line 260 (total_holding_time is kept times Scale)
AverageHoldingTime(total_holding_time, total_sales) ==
    IF total_sales # 0 THEN Ratio(total_holding_time, total_sales * Scale)
    ELSE Ratio(0, 1)

\* line 256
TotalPnlRealizedOnly(realized_pnl, unrealized_pnl) == realized_pnl
TotalPnl(realized_pnl, unrealized_pnl) == realized_pnl + unrealized_pnl

\* lines 254-261: the returned dict, or the exception of a division by zero
Return(c) ==
    LET m == [total_pnl_usd |-> TotalPnl(c.realized_pnl, c.unrealized_pnl),
              realized_pnl |-> c.realized_pnl,
              unrealized_pnl |-> c.unrealized_pnl,
              win_rate |-> WinRate(c.wins, c.total_sales),
              average_holding_time_seconds |->
                  AverageHoldingTime(c.total_holding_time, c.total_sales)]
    IN  IF m.win_rate.den = 0 \/ m.average_holding_time_seconds.den = 0
        THEN [c EXCEPT !.pc = "crashed", !.error = "ZeroDivisionError"]
        ELSE [c EXCEPT !.pc = "done", !.metrics = m]

\* line 250 summed over the lots of one token
RECURSIVE MarkToMarket(_, _)
MarkToMarketHead(buys, current_price) ==
    IF buys = <<>> THEN 0 ELSE (current_price - Head(buys).price) * Head(buys).amount
MarkToMarket(buys, current_price) ==
    IF buys = <<>> THEN 0
    ELSE (current_price - Head(buys).price) * Head(buys).amount
         + MarkToMarket(Tail(buys), current_price)

\* lines 247-250, one iteration; after the last one the function returns.
\* The lookup of line 248 is outside every try: an exception of token_price,
\* or of line 250 on a price that is no number, leaves calculate.
Unrealized(c, r) ==
    LET token == c.hkeys[c.ui]
        buys == c.holdings[token]
    IN  IF r.raised \/ (~IsNumber(r.price) /\ buys # <<>>)
        THEN [c EXCEPT !.pc = "crashed",
                       !.error = IF r.raised THEN "ClientError" ELSE "TypeError"]
        ELSE LET c1 == [c EXCEPT !.unrealized_pnl = @ + MarkToMarket(buys, r.price),
                                 !.ui = @ + 1]
             IN  IF c1.ui > Len(c1.hkeys) THEN Return(c1) ELSE c1

\* the loop of line 214 is exhausted
EndOfLoop(c) ==
    IF c.hkeys = <<>> THEN Return(c) ELSE [c EXCEPT !.pc = "unrealized"]

\* ------------------------------------------- timeframe_to_seconds (95-104)
\* A string is a sequence of one-character strings.
Digits == <<"0", "1", "2", "3", "4", "5", "6", "7", "8", "9">>
IsDigit(c) == \E i \in 1..10 : Digits[i] = c
DigitValue(c) == (CHOOSE i \in 1..10 : Digits[i] = c) - 1

\* int(s) for a string of digits
RECURSIVE IntOf(_)
IntOf(s) ==
    IF s = <<>> THEN 0 ELSE 10 * IntOf(SubSeq(s, 1, Len(s) - 1)) + DigitValue(s[Len(s)])

\* time_units.get(timeframe[-1], 0): the key is one character, so the entry
\* 'mi' of the table is never found
TimeUnits(c) ==
    CASE c = "s" -> 1
      [] c = "h" -> 3600
      [] c = "d" -> 86400
      [] c = "w" -> 604800
      [] c = "m" -> 2592000
      [] c = "y" -> 31536000
      [] OTHER -> 0

\* line 104; raised: int() of a string that is no number (ValueError)
TimeframeToSeconds(timeframe, now) ==
    IF timeframe = <<"a", "l", "l">> THEN [raised |-> FALSE, value |-> now]
    ELSE LET number == SubSeq(timeframe, 1, Len(timeframe) - 1)
         IN  IF number = <<>> \/ \E i \in 1..Len(number) : ~IsDigit(number[i])
             THEN [raised |-> TRUE, value |-> 0]
             ELSE [raised |-> FALSE,
                   value |-> IntOf(number) * TimeUnits(timeframe[Len(timeframe)])]

\* ------------------------------------------------ wallet_history (166-200)
\* line 175 sets limit = 1000; the model pages by Limit records
Limit == 2

\* convert_to_decimal (73-82), on amounts that are multiples of 10 ** places
RECURSIVE Pow10(_)
Pow10(k) == IF k = 0 THEN 1 ELSE 10 * Pow10(k - 1)
ConvertToDecimal(number, decimal_places) == number \div Pow10(decimal_places)

\* convert_to_unix_timestamp (84-93): the epoch second of a parseable ISO
\* time; isoparse raises on any other string
ConvertToUnixTimestamp(blockTime) ==
    [raised |-> ~blockTime.iso, value |-> blockTime.epoch]

Leg(address, amount, decimals) ==
    [address |-> address, amount |-> amount, decimals |-> decimals]
Sol == "So11"

\* What a record of the transaction source can carry besides its time and
\* hash: a swap in or out of token A, another action, an "unknown" action
\* with one or three legs, a record without the key "mainAction".
RecordBodies ==
    {[mainAction |-> "unknown", keys |-> TRUE,
      balanceChange |-> <<Leg(Sol, -20, 1), Leg("A", 10, 1)>>],
     [mainAction |-> "unknown", keys |-> TRUE,
      balanceChange |-> <<Leg(Sol, 30, 1), Leg("A", -10, 1)>>],
     [mainAction |-> "send", keys |-> TRUE,
      balanceChange |-> <<Leg(Sol, -20, 1), Leg("A", 10, 1)>>],
     [mainAction |-> "unknown", keys |-> TRUE,
      balanceChange |-> <<Leg(Sol, -20, 1)>>],
     [mainAction |-> "unknown", keys |-> TRUE,
      balanceChange |-> <<Leg(Sol, -20, 1), Leg("A", 10, 1), Leg("B", 10, 1)>>],
     [mainAction |-> "unknown", keys |-> FALSE,
      balanceChange |-> <<Leg(Sol, -20, 1), Leg("A", 10, 1)>>]}

\* pos is the record's place in the retrieval order, which is its hash too
Record(body, pos, hashed, iso, epoch) ==
    [pos |-> pos, txHash |-> IF hashed THEN pos ELSE 0,
     blockTime |-> [iso |-> iso, epoch |-> epoch],
     mainAction |-> body.mainAction, keys |-> body.keys,
     balanceChange |-> body.balanceChange]

\* lines 189-195; src is the record the event was built from
SwapEvent(rec, timestamp) ==
    [token |-> rec.balanceChange[2].address,
     timestamp |-> timestamp,
     token_amount |-> ConvertToDecimal(rec.balanceChange[2].amount,
                                       rec.balanceChange[2].decimals),
     solana_amount |-> ConvertToDecimal(rec.balanceChange[1].amount,
                                        rec.balanceChange[1].decimals),
     src |-> rec.pos]

\* line 188
IsSwapLegsOnly(rec) == Len(rec.balanceChange) = 2
IsSwap(rec) == rec.mainAction = "unknown" /\ Len(rec.balanceChange) = 2

\* line 185
TooOldNever(timestamp, now, seconds) == FALSE
TooOld(timestamp, now, seconds) == timestamp < now - seconds

\* lines 182-197 over the records of one page, from record i on.  h.txs and
\* h.eol are the locals of line 175.
RECURSIVE PageLoop(_, _, _, _, _)
PageLoop(h, transactions, i, now, timeframe) ==
    IF i > Len(transactions) THEN h
    ELSE LET rec == transactions[i]
             ts == ConvertToUnixTimestamp(rec.blockTime)
             seconds == TimeframeToSeconds(timeframe, now)
         IN  IF ts.raised \/ seconds.raised
             THEN PageLoop(h, transactions, i + 1, now, timeframe)
             ELSE IF TooOld(ts.value, now, seconds.value)
             THEN [h EXCEPT !.eol = TRUE, !.stop = "old"]
             ELSE IF rec.keys /\ IsSwap(rec)
             THEN PageLoop([h EXCEPT !.txs = Append(@, SwapEvent(rec, ts.value))],
                           transactions, i + 1, now, timeframe)
             ELSE PageLoop(h, transactions, i + 1, now, timeframe)

\* line 200: reversed(txs)
RECURSIVE Reversed(_)
NotReversed(txs) == txs
Reversed(txs) == IF txs = <<>> THEN <<>> ELSE Append(Reversed(Tail(txs)), Head(txs))

\* line 200, reached when the loop of line 176 ends
HandOver(h) == [h EXCEPT !.pc = "calc", !.handed = Reversed(h.txs)]

\* lines 180-199 for a page that came with status 200 and success.  A record
\* without "txHash" (txHash = 0) at the end of the page raises KeyError at
\* line 181, outside the try.
HistoryPage(h, transactions, now, timeframe) ==
    IF transactions # <<>> /\ transactions[Len(transactions)].txHash = 0
    THEN [h EXCEPT !.pc = "crashed", !.error = "KeyError"]
    ELSE LET h1 == [h EXCEPT !.lastTx = IF transactions = <<>> THEN 0
                                        ELSE transactions[Len(transactions)].txHash,
                             !.pages = @ + 1]
             h2 == PageLoop(h1, transactions, 1, now, timeframe)
             h3 == IF Len(transactions) < Limit
                   THEN [h2 EXCEPT !.eol = TRUE,
                                   !.stop = IF h2.stop = "" THEN "short" ELSE @]
                   ELSE h2
         IN  IF h3.eol THEN HandOver(h3) ELSE h3

\* line 179: status # 200, or success false
HistoryBreak(h) == HandOver([h EXCEPT !.stop = "failed"])

\* line 175
InitHist ==
    [pc |-> "paging", txs |-> <<>>, eol |-> FALSE, lastTx |-> 0, pages |-> 0,
     stop |-> "", handed |-> <<>>, error |-> ""]

\* ------------------------------------------------------------------- state
VARIABLES
    calc,          \* the locals of one call of calculate
    token_prices,  \* the global price cache (line 59)
    clock,         \* the timestamp of the latest event, then time.time()
    n,             \* events taken from the transaction list so far
    sells,         \* the disposals among them
    tx,            \* the event the latest step processed
    lookup,        \* what the price lookup of the latest step returned
    call,          \* the latest call of token_price, with what it met
    asked,         \* the (token, timestamp) pairs of the lookups that returned
    answered,      \* those for which the oracle has returned a value
    hist,          \* the locals of one call of wallet_history
    seen,          \* the records the source has served, with the time then
    hnow,          \* time.time() during wallet_history
    timeframe,     \* the timeframe read at line 37
    requests,      \* the page requests wallet_history has sent
    inputs,        \* the thresholds read at lines 33-36
    main,          \* the locals of main
    file,          \* the content of token_prices.json, where it is followed
    lookups,       \* per concurrent task: its call of token_price
    stored,        \* the (token, timestamp, price) a returned call has fetched
    last,          \* the latest step of a concurrent task
    runs,          \* per wallet of a concurrent run: its tasks' locals
    oracle,        \* the price oracle of a concurrent run
    feeds,         \* per wallet: the pages its transaction source serves
    alone          \* per wallet: what processing it alone gives

vars == <<calc, token_prices, clock, n, sells, tx, lookup, call, asked, answered,
          hist, seen, hnow, timeframe, requests, inputs, main,
          file, lookups, stored, last, runs, oracle, feeds, alone>>

NoEvent == [kind |-> "none", token |-> "A", timestamp |-> 0, token_amount |-> 0,
            matches |-> 0, partial |-> FALSE, left |-> 0, err |-> FALSE]
NoLookup == [made |-> FALSE, price |-> 0, raised |-> FALSE]
Looked(r) == [made |-> TRUE, price |-> r.price, raised |-> r.raised]

NoCall == [made |-> FALSE, token |-> "A", timestamp |-> 0, kind |-> "cached",
           fetched |-> FALSE, price |-> 0, raised |-> FALSE,
           again |-> FALSE, after_value |-> FALSE]

CalcVars == <<calc, clock, n, sells, tx, lookup>>
CalcIdle ==
    /\ calc = InitCalc
    /\ clock = 0
    /\ n = 0
    /\ sells = 0
    /\ tx = NoEvent
    /\ lookup = NoLookup

HistVars == <<hist, seen, hnow, timeframe, requests>>
HistIdle ==
    /\ hist = InitHist
    /\ seen = <<>>
    /\ hnow = 0
    /\ timeframe = <<"a", "l", "l">>
    /\ requests = <<>>

\* main before its first await
InitMain ==
    [pc |-> "balances", error |-> "", results |-> <<>>,
     qualified_wallets |-> <<>>, final_results |-> <<>>, sorted_results |-> <<>>]

MainVars == <<inputs, main>>
MainIdle ==
    /\ inputs = [minimum_wallet_capital |-> 0, minimum_win_rate |-> 0,
                 mimimum_average_holding_period |-> 0, minimum_total_pnl |-> 0]
    /\ main = InitMain

\* the tasks that call token_price concurrently
Tasks == {1, 2}
NoTask ==
    [pc |-> "idle", token |-> "A", timestamp |-> 0, calls |-> 0, overlap |-> FALSE]
NoStep ==
    [task |-> 0, op |-> "", token |-> "A", timestamp |-> 0, saved |-> FALSE,
     overlap |-> FALSE]
\* solana_wallets.csv
Wallets == <<"w1", "w2", "w3">>

\* the wallets of a concurrent run, by their place in the list
RunWallets == SubSeq(Wallets, 1, 2)
Ws == 1..Len(RunWallets)
\* a wallet before its wallet_balance task has run; sent counts the
\* requests made for it
NoRun ==
    [phase |-> "new", balance |-> 0, h |-> InitHist, calc |-> InitCalc, i |-> 1,
     token |-> "A", timestamp |-> 0,
     sent |-> [balance |-> 0, page |-> 0, price |-> 0]]
NoOracle == [past |-> <<>>, current |-> NoFetch]
NoAlone == [failed |-> FALSE, metrics |-> NoMetrics]
RunVars == <<runs, oracle, feeds, alone>>
RunIdle ==
    /\ runs = [w \in Ws |-> NoRun]
    /\ oracle = NoOracle
    /\ feeds = [w \in Ws |-> <<>>]
    /\ alone = [w \in Ws |-> NoAlone]
TaskVars == <<file, lookups, stored, last, runs, oracle, feeds, alone>>
TaskIdle ==
    /\ file = EmptyDict
    /\ lookups = [t \in Tasks |-> NoTask]
    /\ stored = {}
    /\ last = NoStep
    /\ RunIdle

PriceVars == <<call, asked, answered>>
PriceIdle ==
    /\ call = NoCall
    /\ asked = {}
    /\ answered = {}

\* ------------------------------------------------- one call of calculate
\* Both specifications start at line 212, with the cache file absent.
Init ==
    /\ CalcIdle
    /\ token_prices = EmptyDict
    /\ PriceIdle
    /\ HistIdle
    /\ MainIdle
    /\ TaskIdle

\* One acquisition event (token_amount > 0) of the list, lines 216-222.
ProcessBuy ==
    /\ calc.pc = "events" /\ n < MaxEvents
    /\ \E token \in Tokens, amount \in 1..MaxAmt, dt \in 0..MaxDt :
         LET ts == clock + dt
             ev == Event(TRUE, token, ts, amount)
         IN  \E data \in ResponsesFor(token_prices, ts, token) :
               LET r == TokenPrice(token_prices, ts, token, data)
               IN  /\ calc' = Buy(calc, ev, r)
                   /\ token_prices' = r.token_prices
                   /\ clock' = ts
                   /\ tx' = [NoEvent EXCEPT !.kind = "buy", !.token = token,
                                             !.timestamp = ts,
                                             !.token_amount = amount]
                   /\ lookup' = Looked(r)
    /\ n' = n + 1
    /\ sells' = sells
    /\ UNCHANGED <<PriceVars, HistVars, MainVars, TaskVars>>

\* One disposal event (token_amount < 0) of the list, lines 216-244.
ProcessSell ==
    /\ calc.pc = "events" /\ n < MaxEvents
    /\ \E token \in Tokens, amount \in 1..MaxAmt, dt \in 0..MaxDt :
         LET ts == clock + dt
             ev == Event(TRUE, token, ts, 0 - amount)
         IN  \E data \in ResponsesFor(token_prices, ts, token) :
               LET r == TokenPrice(token_prices, ts, token, data)
                   s == Match(calc, ev, r)
               IN  /\ calc' = Sell(calc, ev, r)
                   /\ token_prices' = r.token_prices
                   /\ clock' = ts
                   /\ tx' = IF r.raised
                             THEN [NoEvent EXCEPT !.kind = "sell", !.token = token,
                                                  !.timestamp = ts,
                                                  !.token_amount = 0 - amount]
                             ELSE [kind |-> "sell", token |-> token,
                                   timestamp |-> ts, token_amount |-> 0 - amount,
                                   matches |-> s.matches, partial |-> s.partial,
                                   left |-> s.left, err |-> s.err]
                   /\ lookup' = Looked(r)
    /\ n' = n + 1
    /\ sells' = sells + 1
    /\ UNCHANGED <<PriceVars, HistVars, MainVars, TaskVars>>

\* An event with token_amount = 0, which neither branch of lines 218/223
\* takes.
ProcessZero ==
    /\ calc.pc = "events" /\ n < MaxEvents
    /\ \E token \in Tokens, dt \in 0..MaxDt :
         /\ clock' = clock + dt
         /\ tx' = [NoEvent EXCEPT !.kind = "zero", !.token = token,
                                   !.timestamp = clock + dt]
    /\ n' = n + 1
    /\ sells' = sells
    /\ lookup' = NoLookup
    /\ UNCHANGED <<calc, token_prices>>
    /\ UNCHANGED <<PriceVars, HistVars, MainVars, TaskVars>>

\* An event lacking a key: KeyError at line 216, caught at line 245.
ProcessMalformed ==
    /\ calc.pc = "events" /\ n < MaxEvents
    /\ tx' = [NoEvent EXCEPT !.kind = "malformed"]
    /\ n' = n + 1
    /\ sells' = sells
    /\ lookup' = NoLookup
    /\ UNCHANGED <<calc, token_prices, clock>>
    /\ UNCHANGED <<PriceVars, HistVars, MainVars, TaskVars>>

\* The transaction list is exhausted.
ProcessEnd ==
    /\ calc.pc = "events"
    /\ calc' = EndOfLoop(calc)
    /\ tx' = NoEvent
    /\ lookup' = NoLookup
    /\ UNCHANGED <<token_prices, clock, n, sells>>
    /\ UNCHANGED <<PriceVars, HistVars, MainVars, TaskVars>>

\* One iteration of the loop of line 247, at time.time() >= every event.
ProcessUnrealized ==
    /\ calc.pc = "unrealized"
    /\ \E dt \in 0..MaxDt :
         LET now == clock + dt
             token == calc.hkeys[calc.ui]
         IN  \E data \in ResponsesFor(token_prices, now, token) :
               LET r == TokenPrice(token_prices, now, token, data)
               IN  /\ calc' = Unrealized(calc, r)
                   /\ token_prices' = r.token_prices
                   /\ clock' = now
                   /\ lookup' = Looked(r)
    /\ tx' = NoEvent
    /\ UNCHANGED <<n, sells>>
    /\ UNCHANGED <<PriceVars, HistVars, MainVars, TaskVars>>

\* the loop of lines 214-246 over a transaction list of at most MaxEvents
Next ==
    \/ ProcessBuy
    \/ ProcessSell
    \/ ProcessZero
    \/ ProcessMalformed

Spec == Init /\ [][Next]_vars

\* a whole call of calculate: the loop, the marking to market, the return
NextCalc ==
    \/ ProcessBuy
    \/ ProcessSell
    \/ ProcessZero
    \/ ProcessMalformed
    \/ ProcessEnd
    \/ ProcessUnrealized

SpecCalc == Init /\ [][NextCalc]_vars

\* ------------------------------------------- calls of token_price, in turn
InitPrice ==
    /\ CalcIdle
    /\ token_prices = EmptyDict
    /\ PriceIdle
    /\ HistIdle
    /\ MainIdle
    /\ TaskIdle

LookupStep(token, timestamp, data) ==
    LET r == TokenPrice(token_prices, timestamp, token, data)
        key == <<token, timestamp>>
    IN  /\ token_prices' = r.token_prices
        /\ call' = [made |-> TRUE, token |-> token, timestamp |-> timestamp,
                    kind |-> data.kind, fetched |-> r.fetched, price |-> r.price,
                    raised |-> r.raised,
                    again |-> key \in asked,
                    after_value |-> key \in answered]
        /\ asked' = IF r.raised THEN asked ELSE asked \cup {key}
        /\ answered' = IF r.fetched /\ data.kind # "ok" THEN answered
                       ELSE answered \cup {key}
        /\ UNCHANGED <<CalcVars, HistVars, MainVars, TaskVars>>

\* a lookup of a key that is in the cache (lines 150-151)
LookupCached ==
    \E token \in Tokens, timestamp \in 0..MaxDt :
        /\ Cached(token_prices, timestamp, token)
        /\ LookupStep(token, timestamp, NoFetch)

\* a lookup of a key that is not (lines 152-163)
LookupRemote ==
    \E token \in Tokens, timestamp \in 0..MaxDt :
        /\ ~Cached(token_prices, timestamp, token)
        /\ \E data \in PriceResponses : LookupStep(token, timestamp, data)

NextPrice ==
    \/ LookupCached
    \/ LookupRemote

SpecPrice == InitPrice /\ [][NextPrice]_vars

\* ------------------------------- concurrent calls of token_price (134-164)
MaxCalls == 2

\* load_data (40-56) at line 59: the cache is what the file holds, and a
\* file that does not exist is created holding {}
StartCaches == {EmptyDict, "A" :> (Str(0) :> 1)}

InitCache ==
    /\ CalcIdle
    /\ PriceIdle
    /\ HistIdle
    /\ MainIdle
    /\ token_prices \in StartCaches
    /\ file = token_prices
    /\ lookups = [t \in Tasks |-> NoTask]
    /\ stored = {}
    /\ last = NoStep
    /\ RunIdle

OthersWaitingOn(t, token, timestamp) ==
    \E u \in Tasks \ {t} :
        /\ lookups[u].pc = "waiting"
        /\ lookups[u].token = token
        /\ lookups[u].timestamp # timestamp

\* a task calls token_price and runs to the await of line 153, or to the
\* return on a cache hit
CallBegin(t, token, timestamp) ==
    LET b == TokenPriceBegin(token_prices, timestamp, token)
        overlap == OthersWaitingOn(t, token, timestamp)
    IN  /\ token_prices' = b.token_prices
        /\ file' = Persist(file, b.token_prices, b.saved)
        /\ lookups' = [lookups EXCEPT ![t] =
                          [pc |-> IF b.hit THEN "idle" ELSE "waiting",
                           token |-> token, timestamp |-> timestamp,
                           calls |-> @.calls + 1, overlap |-> overlap]]
        /\ last' = [task |-> t, op |-> IF b.hit THEN "hit" ELSE "miss",
                    token |-> token, timestamp |-> timestamp,
                    saved |-> b.saved, overlap |-> overlap]
        /\ UNCHANGED stored

LookupHit ==
    /\ \E t \in Tasks, token \in Tokens, timestamp \in 0..MaxDt :
         /\ lookups[t].pc = "idle" /\ lookups[t].calls < MaxCalls
         /\ Cached(token_prices, timestamp, token)
         /\ CallBegin(t, token, timestamp)
    /\ UNCHANGED <<CalcVars, PriceVars, HistVars, MainVars, RunVars>>

LookupMiss ==
    /\ \E t \in Tasks, token \in Tokens, timestamp \in 0..MaxDt :
         /\ lookups[t].pc = "idle" /\ lookups[t].calls < MaxCalls
         /\ ~Cached(token_prices, timestamp, token)
         /\ CallBegin(t, token, timestamp)
    /\ UNCHANGED <<CalcVars, PriceVars, HistVars, MainVars, RunVars>>

\* the request of a waiting task returns and the task runs to its return
\* (lines 153-164), or the request raises and the task ends with it
LookupReturns ==
    /\ \E t \in Tasks, data \in PriceResponses :
         LET token == lookups[t].token
             timestamp == lookups[t].timestamp
             e == TokenPriceEnd(token_prices, timestamp, token, data)
         IN  /\ lookups[t].pc = "waiting"
             /\ token_prices' = e.token_prices
             /\ file' = Persist(file, e.token_prices, e.saved)
             /\ lookups' = [lookups EXCEPT ![t].pc = IF e.raised THEN "raised"
                                                   ELSE "idle"]
             /\ stored' = IF data.kind = "ok"
                          THEN {st \in stored : st[1] # token \/ st[2] # timestamp}
                               \cup {<<token, timestamp, data.value>>}
                          ELSE stored
             /\ last' = [task |-> t, op |-> IF data.kind = "ok" THEN "fetched"
                                            ELSE "failed",
                         token |-> token, timestamp |-> timestamp,
                         saved |-> e.saved, overlap |-> lookups[t].overlap]
    /\ UNCHANGED <<CalcVars, PriceVars, HistVars, MainVars, RunVars>>

NextCache ==
    \/ LookupHit
    \/ LookupMiss
    \/ LookupReturns

SpecCache == InitCache /\ [][NextCache]_vars

\* --------------------------------------------- one call of wallet_history
MaxRecords == 3
HistNow == 3

\* the timeframes tried: 1 and 2 seconds, "1mi", one of each other unit,
\* "all"
Timeframes ==
    {<<"1", "s">>, <<"2", "s">>, <<"1", "m", "i">>, <<"1", "h">>, <<"1", "d">>,
     <<"1", "w">>, <<"1", "m">>, <<"1", "y">>, <<"a", "l", "l">>}

InitHistory ==
    /\ CalcIdle
    /\ token_prices = EmptyDict
    /\ PriceIdle
    /\ hist = InitHist
    /\ seen = <<>>
    /\ hnow = HistNow
    /\ timeframe \in Timeframes
    /\ requests = <<>>
    /\ MainIdle
    /\ TaskIdle

\* the records the source can serve next: newest first, so none is younger
\* than top, the time of the record before it
RecordsAt(top, pos) ==
    LET epochs == {e \in {top, top - 1} : e >= 0}
        swap == CHOOSE b \in RecordBodies :
                    IsSwap(b) /\ b.keys /\ b.balanceChange[2].amount > 0
    IN  {Record(b, pos, TRUE, TRUE, e) : b \in RecordBodies, e \in epochs}
        \cup {Record(swap, pos, TRUE, FALSE, e) : e \in epochs}
        \cup {Record(swap, pos, FALSE, TRUE, e) : e \in epochs}

RECURSIVE PagesOf(_, _, _)
PagesOf(len, top, pos) ==
    IF len = 0 THEN {<<>>}
    ELSE UNION {{<<rec>> \o rest :
                    rest \in PagesOf(len - 1, rec.blockTime.epoch, pos + 1)} :
                rec \in RecordsAt(top, pos)}

\* line 177: the request carries before = lastTx when lastTx is set; first
\* is the place in the history of the first record it is answered with
Request(lastTx, kind, len) ==
    [before |-> lastTx, kind |-> kind, first |-> Len(seen) + 1, len |-> len]

Oldest == IF seen = <<>> THEN HistNow ELSE seen[Len(seen)].rec.blockTime.epoch

\* lines 177-199: the fetch of line 178 returns a page of the history
FetchPage ==
    /\ hist.pc = "paging"
    /\ \E dt \in 0..MaxDt, len \in 0..Limit :
         /\ Len(seen) + len <= MaxRecords
         /\ \E transactions \in PagesOf(len, Oldest, Len(seen) + 1) :
              /\ hnow' = hnow + dt
              /\ hist' = HistoryPage(hist, transactions, hnow + dt, timeframe)
              /\ seen' = seen \o [i \in 1..len |->
                                     [rec |-> transactions[i], now |-> hnow + dt]]
              /\ requests' = Append(requests, Request(hist.lastTx, "ok", len))
    /\ UNCHANGED <<CalcVars, token_prices, PriceVars, timeframe, MainVars, TaskVars>>

\* line 179: the fetch returns None (status # 200) or a body without success
FetchFails ==
    /\ hist.pc = "paging"
    /\ hist' = HistoryBreak(hist)
    /\ requests' = Append(requests, Request(hist.lastTx, "failed", 0))
    /\ UNCHANGED <<CalcVars, token_prices, PriceVars, seen, hnow, timeframe, MainVars, TaskVars>>

\* line 178 raises (network error, body that is not JSON), or line 180 does
\* on a body whose "data" is no dict: neither is caught
FetchRaises ==
    /\ hist.pc = "paging"
    /\ hist' = [hist EXCEPT !.pc = "crashed", !.error = "ClientError"]
    /\ requests' = Append(requests, Request(hist.lastTx, "raised", 0))
    /\ UNCHANGED <<CalcVars, token_prices, PriceVars, seen, hnow, timeframe, MainVars, TaskVars>>

NextHistory ==
    \/ FetchPage
    \/ FetchFails
    \/ FetchRaises

SpecHistory == InitHistory /\ [][NextHistory]_vars

\* the event loop runs wallet_history on: every request is answered or fails
SpecHistoryFair == SpecHistory /\ WF_vars(NextHistory)

\* ------------------------------------------------------- main (263-279)
MaxBalance == 2

\* What the request of line 128 can come to: as for a price, with
\* data["data"].get("totalUsd", 0) = value when the body is well formed
BalanceResponses ==
    {[kind |-> k, value |-> 0] : k \in {"raise", "none", "nosuccess", "malformed"}}
    \cup {[kind |-> "ok", value |-> v] : v \in (0..MaxBalance) \cup {NotANumber}}

\* wallet_balance (118-132): the fetch of line 128 is before the try
WalletBalance(data) ==
    [raised |-> data.kind = "raise",
     value |-> IF data.kind = "ok" THEN data.value ELSE 0]

\* line 272
QualifiesAtEqual(b, capital) == b >= capital
Qualifies(b, capital) == b > capital

RECURSIVE QualifiedWallets(_, _, _)
QualifiedWallets(wallets, results, capital) ==
    IF wallets = <<>> THEN <<>>
    ELSE (IF Qualifies(Head(results), capital) THEN <<Head(wallets)>> ELSE <<>>)
         \o QualifiedWallets(Tail(wallets), Tail(results), capital)

\* lines 176-199 against the pages a source serves one after the other
RECURSIVE Paging(_, _, _, _)
Paging(h, pages, now, tf) ==
    IF h.pc # "paging" \/ pages = <<>> THEN h
    ELSE CASE Head(pages).kind = "raise" ->
                [h EXCEPT !.pc = "crashed", !.error = "ClientError"]
           [] Head(pages).kind = "ok" ->
                Paging(HistoryPage(h, Head(pages).records, now, tf),
                       Tail(pages), now, tf)
           [] OTHER -> HistoryBreak(h)

\* lines 214-246 over the handed events; quotes[k] is what the oracle
\* answers the lookup of the k-th event, when it is asked
RECURSIVE RunEvents(_, _, _, _)
RunEvents(c, prices, events, quotes) ==
    IF events = <<>> THEN [calc |-> c, token_prices |-> prices]
    ELSE LET ev == Head(events)
         IN  IF ev.token_amount = 0
             THEN RunEvents(c, prices, Tail(events), Tail(quotes))
             ELSE LET data == IF Cached(prices, ev.timestamp, ev.token)
                              THEN NoFetch ELSE Head(quotes)
                      r == TokenPrice(prices, ev.timestamp, ev.token, data)
                      c1 == IF ev.token_amount > 0 THEN Buy(c, ev, r)
                            ELSE Sell(c, ev, r)
                  IN  RunEvents(c1, r.token_prices, Tail(events), Tail(quotes))

\* lines 247-261; final is what the oracle answers a lookup at time now
RECURSIVE RunUnrealized(_, _, _, _)
RunUnrealized(c, prices, now, final) ==
    IF c.pc # "unrealized" THEN [calc |-> c, token_prices |-> prices]
    ELSE LET token == c.hkeys[c.ui]
             data == IF Cached(prices, now, token) THEN NoFetch ELSE final
             r == TokenPrice(prices, now, token, data)
         IN  RunUnrealized(Unrealized(c, r), r.token_prices, now, final)

\* calculate (202-261)
Calculate(events, prices, quotes, final, now) ==
    LET a == RunEvents(InitCalc, prices, events, quotes)
    IN  RunUnrealized(EndOfLoop(a.calc), a.token_prices, now, final)

\* wallet_history (166-200) with the calculate it ends in
WalletHistory(wallet, source, prices, now, tf) ==
    LET h == Paging(InitHist, source.pages, now, tf)
        c == Calculate(h.handed, prices, source.quotes, source.final, now)
    IN  IF h.pc = "crashed"
        THEN [raised |-> TRUE, error |-> h.error, token_prices |-> prices,
              row |-> [wallet |-> wallet, metrics |-> NoMetrics]]
        ELSE [raised |-> c.calc.pc = "crashed", error |-> c.calc.error,
              token_prices |-> c.token_prices,
              row |-> [wallet |-> wallet, metrics |-> c.calc.metrics]]

\* ratio >= m
AtLeast(ratio, m) == ratio.num >= m * ratio.den

\* the condition of line 274
Passes(r, in) ==
    /\ AtLeast(r.metrics.win_rate, in.minimum_win_rate)
    /\ AtLeast(r.metrics.average_holding_time_seconds,
               in.mimimum_average_holding_period)
    /\ r.metrics.total_pnl_usd >= in.minimum_total_pnl

RECURSIVE Filtered(_, _)
Filtered(rows, in) ==
    IF rows = <<>> THEN <<>>
    ELSE (IF Passes(Head(rows), in) THEN <<Head(rows)>> ELSE <<>>)
         \o Filtered(Tail(rows), in)

\* sorted(..., key=total_pnl_usd, reverse=True): Python's sort is stable,
\* and stays so under reverse: a row goes behind the rows of equal key
\* that came before it
RECURSIVE InsertBeforeEqual(_, _)
InsertBeforeEqual(row, rows) ==
    IF rows = <<>> THEN <<row>>
    ELSE IF Head(rows).metrics.total_pnl_usd > row.metrics.total_pnl_usd
         THEN <<Head(rows)>> \o InsertBeforeEqual(row, Tail(rows))
         ELSE <<row>> \o rows
RECURSIVE Insert(_, _)
Insert(row, rows) ==
    IF rows = <<>> THEN <<row>>
    ELSE IF Head(rows).metrics.total_pnl_usd >= row.metrics.total_pnl_usd
         THEN <<Head(rows)>> \o Insert(row, Tail(rows))
         ELSE <<row>> \o rows

RECURSIVE Sorted(_)
Sorted(rows) ==
    IF rows = <<>> THEN <<>>
    ELSE Insert(rows[Len(rows)], Sorted(SubSeq(rows, 1, Len(rows) - 1)))

\* lines 274-278: the rows written
Screen(m, in) == [m EXCEPT !.pc = "done",
                           !.sorted_results = Sorted(Filtered(m.final_results, in))]

\* line 272, when the gather of line 271 has returned; a balance that is
\* no number cannot be compared (TypeError)
QualifyOf(wallets, m, in) ==
    IF \E i \in 1..Len(m.results) : ~IsNumber(m.results[i])
    THEN [m EXCEPT !.pc = "crashed", !.error = "TypeError"]
    ELSE LET q == QualifiedWallets(wallets, m.results, in.minimum_wallet_capital)
             m1 == [m EXCEPT !.qualified_wallets = q, !.pc = "histories"]
         IN  IF q = <<>> THEN Screen(m1, in) ELSE m1
Qualify(m, in) == QualifyOf(Wallets, m, in)

\* the transaction sources of the run: no record, one acquisition, an
\* acquisition and a disposal on a full page before a fetch that fails, a
\* record without hash, a fetch that raises, one that fails
SwapIn ==
    [mainAction |-> "unknown", keys |-> TRUE,
     balanceChange |-> <<Leg(Sol, -20, 1), Leg("A", 10, 1)>>]
SwapOut ==
    [mainAction |-> "unknown", keys |-> TRUE,
     balanceChange |-> <<Leg(Sol, 30, 1), Leg("A", -10, 1)>>]
Failure(kind) == [kind |-> kind, records |-> <<>>]
Page(records) == [kind |-> "ok", records |-> records]
Quote(v) == [kind |-> "ok", value |-> v]
Quotes == {Quote(v) : v \in 1..MaxPrice} \cup {Failure("raise")}
Finals == {Quote(1), Failure("none"), Failure("raise")}
Source(pages, q1, q2, final) ==
    [pages |-> pages, quotes |-> <<q1, q2>>, final |-> final]
Sources ==
    {Source(<<Failure(k)>>, Quote(1), Quote(1), Quote(1)) : k \in {"raise", "none"}}
    \cup {Source(<<Page(<<>>)>>, Quote(1), Quote(1), Quote(1)),
          Source(<<Page(<<Record(SwapIn, 1, FALSE, TRUE, 1)>>)>>,
                 Quote(1), Quote(1), Quote(1)),
          Source(<<Page(<<Record(SwapOut, 1, TRUE, TRUE, 2),
                          Record(SwapIn, 2, TRUE, TRUE, 1)>>), Failure("raise")>>,
                 Quote(1), Quote(1), Quote(1))}
    \cup {Source(<<Page(<<Record(SwapIn, 1, TRUE, TRUE, 1)>>)>>, q1, Quote(1), f) :
             q1 \in Quotes, f \in Finals}
    \cup {Source(<<Page(<<Record(SwapOut, 1, TRUE, TRUE, e),
                          Record(SwapIn, 2, TRUE, TRUE, 1)>>), Failure("none")>>,
                 q1, q2, f) :
             e \in {1, 2}, q1 \in Quotes, q2 \in Quotes, f \in Finals}

InitScreener ==
    /\ CalcIdle
    /\ token_prices = EmptyDict
    /\ PriceIdle
    /\ HistIdle
    /\ inputs \in [minimum_wallet_capital : {1}, minimum_win_rate : {0, 100},
                   mimimum_average_holding_period : {0, 1},
                   minimum_total_pnl : {0 - 1, 1}]
    /\ main = InitMain
    /\ TaskIdle

\* one wallet_balance of the gather of line 271 returns
BalanceReturns ==
    /\ main.pc = "balances"
    /\ \E data \in BalanceResponses :
         LET b == WalletBalance(data)
             m == [main EXCEPT !.results = Append(@, b.value)]
         IN  /\ ~b.raised
             /\ main' = IF Len(m.results) = Len(Wallets) THEN Qualify(m, inputs)
                        ELSE m
    /\ UNCHANGED <<CalcVars, token_prices, PriceVars, HistVars, inputs, TaskVars>>

\* one raises: gather hands the exception to main, which has no handler
BalanceRaises ==
    /\ main.pc = "balances"
    /\ \E data \in BalanceResponses :
         /\ WalletBalance(data).raised
         /\ main' = [main EXCEPT !.pc = "crashed", !.error = "ClientError"]
    /\ UNCHANGED <<CalcVars, token_prices, PriceVars, HistVars, inputs, TaskVars>>

\* one wallet_history of the gather of line 273 returns its metrics
HistoryReturns ==
    /\ main.pc = "histories"
    /\ \E source \in Sources :
         \E r \in {WalletHistory(main.qualified_wallets[Len(main.final_results) + 1],
                                  source, token_prices, HistNow, timeframe)} :
             /\ ~r.raised
             /\ token_prices' = r.token_prices
             /\ \E m \in {[main EXCEPT !.final_results = Append(@, r.row)]} :
                    main' = IF Len(m.final_results) = Len(m.qualified_wallets)
                            THEN Screen(m, inputs) ELSE m
    /\ UNCHANGED <<CalcVars, PriceVars, HistVars, inputs, TaskVars>>

\* one raises
HistoryRaises ==
    /\ main.pc = "histories"
    /\ \E source \in Sources :
         \E r \in {WalletHistory(main.qualified_wallets[Len(main.final_results) + 1],
                                  source, token_prices, HistNow, timeframe)} :
             /\ r.raised
             /\ token_prices' = r.token_prices
             /\ main' = [main EXCEPT !.pc = "crashed", !.error = r.error]
    /\ UNCHANGED <<CalcVars, PriceVars, HistVars, inputs, TaskVars>>

NextScreener ==
    \/ BalanceReturns
    \/ BalanceRaises
    \/ HistoryReturns
    \/ HistoryRaises

SpecScreener == InitScreener /\ [][NextScreener]_vars

\* ----------------------- main with its tasks interleaved (263-279, 271, 273)
\* The tasks of a gather run one at a time and change hands only where one
\* awaits a request: the balance request (line 128), a page request
\* (line 178), a price request (line 153).

\* the histories the wallets of a concurrent run can have
RunHistories == {s.pages : s \in Sources}

\* a fixed oracle: a response per past timestamp, and one response for
\* every timestamp from the start of the run on (the current price)
Oracles == [past : [1..2 -> Quotes], current : Finals]
Oracle(o, token, timestamp) ==
    IF timestamp >= HistNow THEN o.current
    ELSE IF timestamp \in DOMAIN o.past THEN o.past[timestamp]
    ELSE Failure("none")

\* lines 218-244 for one event, r being what token_price came to
Apply(c, ev, r) == IF ev.token_amount > 0 THEN Buy(c, ev, r) ELSE Sell(c, ev, r)

Ended(run) ==
    [run EXCEPT !.phase = IF run.calc.pc = "done" THEN "done" ELSE "crashed"]

\* lines 247-261 from iteration calc.ui on, up to the next price request
RECURSIVE AdvanceFinal(_, _, _)
AdvanceFinal(run, prices, now) ==
    IF run.calc.pc # "unrealized" THEN [run |-> Ended(run), token_prices |-> prices]
    ELSE LET token == run.calc.hkeys[run.calc.ui]
             b == TokenPriceBegin(prices, now, token)
         IN  IF b.hit
             THEN AdvanceFinal(
                      [run EXCEPT !.calc = Unrealized(@, [price |-> b.price,
                                                          raised |-> FALSE])],
                      b.token_prices, now)
             ELSE [run |-> [run EXCEPT !.phase = "final", !.token = token,
                                       !.timestamp = now, !.sent.price = @ + 1],
                   token_prices |-> b.token_prices]

\* lines 214-246 from event i on, up to the next price request
RECURSIVE AdvanceEvents(_, _, _)
AdvanceEvents(run, prices, now) ==
    IF run.i > Len(run.h.handed)
    THEN AdvanceFinal([run EXCEPT !.calc = EndOfLoop(@)], prices, now)
    ELSE LET ev == run.h.handed[run.i]
             b == TokenPriceBegin(prices, ev.timestamp, ev.token)
         IN  IF ev.token_amount = 0
             THEN AdvanceEvents([run EXCEPT !.i = @ + 1], prices, now)
             ELSE IF b.hit
             THEN AdvanceEvents(
                      [run EXCEPT !.calc = Apply(@, ev, [price |-> b.price,
                                                         raised |-> FALSE]),
                                  !.i = @ + 1],
                      b.token_prices, now)
             ELSE [run |-> [run EXCEPT !.phase = "price", !.token = ev.token,
                                       !.timestamp = ev.timestamp,
                                       !.sent.price = @ + 1],
                   token_prices |-> b.token_prices]

\* lines 178-200 when the page request has come to page
AfterPage(run, page, prices, now, tf) ==
    LET h == CASE page.kind = "raise" ->
                    [run.h EXCEPT !.pc = "crashed", !.error = "ClientError"]
               [] page.kind = "ok" -> HistoryPage(run.h, page.records, HistNow, tf)
               [] OTHER -> HistoryBreak(run.h)
    IN  CASE h.pc = "crashed" ->
                [run |-> [run EXCEPT !.h = h, !.phase = "crashed"],
                 token_prices |-> prices]
          [] h.pc = "paging" ->
                [run |-> [run EXCEPT !.h = h, !.phase = "page", !.sent.page = @ + 1],
                 token_prices |-> prices]
          [] OTHER -> AdvanceEvents([run EXCEPT !.h = h, !.i = 1], prices, now)

\* the final_results of line 273, in the order of qualified_wallets
RECURSIVE RowsOf(_, _)
RowsOf(rs, qualified) ==
    IF qualified = <<>> THEN <<>>
    ELSE LET w == CHOOSE w \in Ws : RunWallets[w] = Head(qualified)
         IN  <<[wallet |-> RunWallets[w], metrics |-> rs[w].calc.metrics]>>
             \o RowsOf(rs, Tail(qualified))

\* main when a task of the gather of line 273 has been left: an exception
\* of any task ends main, the return of the last one lets it go on
AfterHistory(m, rs, in) ==
    IF \E w \in Ws : rs[w].phase = "crashed"
    THEN LET w == CHOOSE w \in Ws : rs[w].phase = "crashed"
         IN  [m EXCEPT !.pc = "crashed",
                       !.error = IF rs[w].h.pc = "crashed" THEN rs[w].h.error
                                 ELSE rs[w].calc.error]
    ELSE IF \A w \in Ws : rs[w].phase \in {"done", "out"}
    THEN Screen([m EXCEPT !.final_results = RowsOf(rs, m.qualified_wallets)], in)
    ELSE m

\* main when the last task of the gather of line 271 has returned: the
\* wallets that qualify get a wallet_history task
AfterBalances(m, rs, in) ==
    IF \E w \in Ws : rs[w].phase \in {"new", "balance"} THEN [main |-> m, runs |-> rs]
    ELSE LET m1 == QualifyOf(RunWallets,
                             [m EXCEPT !.results = [w \in Ws |-> rs[w].balance]], in)
         IN  [main |-> m1,
              runs |-> [w \in Ws |->
                           [rs[w] EXCEPT !.phase =
                               IF m1.pc = "crashed" THEN "had"
                               ELSE IF \E k \in 1..Len(m1.qualified_wallets) :
                                          m1.qualified_wallets[k] = RunWallets[w]
                               THEN "ready" ELSE "out"]]]

\* wallet_history and calculate for one wallet with nothing else running,
\* from an empty cache: every lookup is answered by the oracle
Alone(pages, o, now, tf) ==
    LET h == Paging(InitHist, pages \o <<Failure("none")>>, now, tf)
        c == Calculate(h.handed, EmptyDict,
                       [k \in 1..Len(h.handed) |->
                           Oracle(o, h.handed[k].token, h.handed[k].timestamp)],
                       o.current, now).calc
    IN  IF h.pc = "crashed" THEN [failed |-> TRUE, metrics |-> NoMetrics]
        ELSE [failed |-> c.pc = "crashed", metrics |-> c.metrics]

InitRun ==
    /\ CalcIdle
    /\ PriceIdle
    /\ HistIdle
    /\ token_prices = EmptyDict
    /\ file = EmptyDict
    /\ lookups = [t \in Tasks |-> NoTask]
    /\ stored = {}
    /\ last = NoStep
    /\ inputs = [minimum_wallet_capital |-> 1, minimum_win_rate |-> 0,
                 mimimum_average_holding_period |-> 0, minimum_total_pnl |-> 0 - 1]
    /\ main = InitMain
    /\ runs = [w \in Ws |-> NoRun]
    /\ oracle \in Oracles
    /\ feeds \in [Ws -> RunHistories]
    /\ alone = [w \in Ws |-> Alone(feeds[w], oracle, HistNow, timeframe)]

RunFrame == UNCHANGED <<CalcVars, PriceVars, HistVars, inputs, lookups, stored,
                        oracle, feeds, alone>>
Step(w, op) == [NoStep EXCEPT !.task = w, !.op = op]

\* a wallet_balance task runs to its request (line 128)
BalanceStarts ==
    /\ main.pc = "balances"
    /\ \E w \in Ws :
         /\ runs[w].phase = "new"
         /\ runs' = [runs EXCEPT ![w].phase = "balance", ![w].sent.balance = @ + 1]
         /\ last' = Step(w, "balance")
    /\ UNCHANGED <<main, token_prices, file>>
    /\ RunFrame

\* the request of a wallet_balance task is answered or raises
BalanceEnds ==
    /\ main.pc = "balances"
    /\ \E w \in Ws, data \in BalanceResponses :
         /\ runs[w].phase = "balance"
         /\ \E b \in {WalletBalance(data)} :
              IF b.raised
              THEN /\ main' = [main EXCEPT !.pc = "crashed", !.error = "ClientError"]
                   /\ runs' = [runs EXCEPT ![w].phase = "crashed"]
              ELSE \E a \in {AfterBalances(main,
                                 [runs EXCEPT ![w].phase = "had",
                                              ![w].balance = b.value], inputs)} :
                       /\ main' = a.main
                       /\ runs' = a.runs
         /\ last' = Step(w, "balanced")
    /\ UNCHANGED <<token_prices, file>>
    /\ RunFrame

\* a wallet_history task runs to its first page request (line 178)
HistoryStarts ==
    /\ main.pc = "histories"
    /\ \E w \in Ws :
         /\ runs[w].phase = "ready"
         /\ runs' = [runs EXCEPT ![w].phase = "page", ![w].sent.page = @ + 1]
         /\ last' = Step(w, "page")
    /\ UNCHANGED <<main, token_prices, file>>
    /\ RunFrame

\* a task resumed with the outcome a of its request runs to its next one
Resume(w, a, op) ==
    /\ runs' = [runs EXCEPT ![w] = a.run]
    /\ token_prices' = a.token_prices
    /\ file' = Persist(file, a.token_prices, a.token_prices # token_prices)
    /\ main' = AfterHistory(main, [runs EXCEPT ![w] = a.run], inputs)
    /\ last' = Step(w, op)

\* a page request is answered with the next page of the wallet's source
PageEnds ==
    /\ main.pc = "histories"
    /\ \E w \in Ws, dt \in 0..MaxDt :
         /\ runs[w].phase = "page"
         /\ LET k == runs[w].sent.page
                page == IF k <= Len(feeds[w]) THEN feeds[w][k] ELSE Failure("none")
            IN  \E a \in {AfterPage(runs[w], page, token_prices, HistNow + dt,
                                    timeframe)} : Resume(w, a, "paged")
    /\ RunFrame

\* the price request of an event is answered: lines 153-164, then the event
\* (lines 218-244), then on to the next request
PriceEnds ==
    /\ main.pc = "histories"
    /\ \E w \in Ws, dt \in 0..MaxDt :
         /\ runs[w].phase = "price"
         /\ \E e \in {TokenPriceEnd(token_prices, runs[w].timestamp, runs[w].token,
                                   Oracle(oracle, runs[w].token, runs[w].timestamp))} :
              \E a \in {AdvanceEvents(
                           [runs[w] EXCEPT !.calc = Apply(@, runs[w].h.handed[runs[w].i],
                                                          [price |-> e.price,
                                                           raised |-> e.raised]),
                                           !.i = @ + 1],
                           e.token_prices, HistNow + dt)} : Resume(w, a, "priced")
    /\ RunFrame

\* the price request of line 248 is answered
FinalEnds ==
    /\ main.pc = "histories"
    /\ \E w \in Ws :
         /\ runs[w].phase = "final"
         /\ \E e \in {TokenPriceEnd(token_prices, runs[w].timestamp, runs[w].token,
                                   Oracle(oracle, runs[w].token, runs[w].timestamp))} :
              \E a \in {AdvanceFinal(
                           [runs[w] EXCEPT !.calc = Unrealized(@, [price |-> e.price,
                                                                   raised |-> e.raised])],
                           e.token_prices, runs[w].timestamp)} : Resume(w, a, "marked")
    /\ RunFrame

NextRun ==
    \/ BalanceStarts
    \/ BalanceEnds
    \/ HistoryStarts
    \/ PageEnds
    \/ PriceEnds
    \/ FinalEnds

SpecRun == InitRun /\ [][NextRun]_vars

\* ------------------------------------------------------------------ claims
\* FIFO matching stated on the queue as a whole, without the loop: lot i of
\* queue q gives to a disposal of size need what is left of need after the
\* lots before it, at most its own quantity.
RECURSIVE QtyBefore(_, _)
QtyBefore(q, i) == IF i <= 1 THEN 0 ELSE q[i - 1].amount + QtyBefore(q, i - 1)

Matched(q, need, i) == Max(0, Min(q[i].amount, need - QtyBefore(q, i)))

RECURSIVE SumTo(_, _)
SumTo(f, k) == IF k = 0 THEN 0 ELSE f[k] + SumTo(f, k - 1)

FifoPnl(q, need, sell_price) ==
    SumTo([i \in 1..Len(q) |-> (sell_price - q[i].price) * Matched(q, need, i)],
          Len(q))

FifoAge(q, need, timestamp) ==
    SumTo([i \in 1..Len(q) |-> (timestamp - q[i].time) * Matched(q, need, i)],
          Len(q))

FifoRest(q, need) ==
    LET reduced == [i \in 1..Len(q) |->
                       [q[i] EXCEPT !.amount = @ - Matched(q, need, i)]]
        Open(lot) == lot.amount > 0
    IN  SelectSeq(reduced, Open)

\* the step just taken processed a disposal to its end with a price that is
\* a number
Disposed == tx.kind = "sell" /\ lookup.made /\ ~lookup.raised /\ IsNumber(lookup.price)
Need == 0 - tx.token_amount

\* C1: a disposal consumes the token's lots from the head onward, min(need
\* left, lot quantity) from each; its PnL is the sum of (sell price - unit
\* cost) * matched over the lots; what is left of a partially consumed lot
\* stays at the head with cost and acquired_at unchanged, the younger lots
\* and the other tokens' queues are untouched.
C1_FifoStep ==
    Disposed' =>
        LET q == calc.holdings[tx'.token]
            pnl == FifoPnl(q, Need', lookup'.price)
        IN  /\ calc'.holdings[tx'.token] = FifoRest(q, Need')
            /\ \A t \in Tokens \ {tx'.token} : calc'.holdings[t] = calc.holdings[t]
            /\ calc'.pnl_records = Append(calc.pnl_records, pnl)
            /\ calc'.realized_pnl = calc.realized_pnl + pnl
            /\ tx'.matches = Cardinality({i \in 1..Len(q) : Matched(q, Need', i) > 0})
            /\ \A i \in 1..Len(q) : Matched(q, Need', i) > 0 =>
                   \A j \in 1..(i - 1) : Matched(q, Need', j) = q[j].amount
C1_Fifo == [][C1_FifoStep]_vars

\* lots (1 @1), (2 @2) and a disposal of 2 at price 2: PnL 1*(2-1) + 1*(2-2)
\* and one lot (1 @2) left, as the spec's (10 @1), (10 @2), 15 @3 leaves (5 @2)
C1_Witness ==
    /\ Disposed /\ Need = 2 /\ lookup.price = 2
    /\ tx.matches = 2 /\ tx.partial
    /\ calc.pnl_records = <<1>>
    /\ Len(calc.holdings[tx.token]) = 1
    /\ calc.holdings[tx.token][1].amount = 1
    /\ calc.holdings[tx.token][1].price = 2
    /\ calc.holdings[tx.token][1].time < tx.timestamp

\* the step just taken processed an acquisition whose lookup returned price
Acquired(price) ==
    tx.kind = "buy" /\ lookup.made /\ ~lookup.raised /\ lookup.price = price

RECURSIVE TotalQty(_)
TotalQty(q) == IF q = <<>> THEN 0 ELSE Head(q).amount + TotalQty(Tail(q))

\* C4: an acquisition whose price lookup returns 0 leaves every queue as it
\* was; a disposal of a token that has no lot matches nothing and records a
\* PnL of exactly 0.
C4_DroppedStep ==
    /\ Acquired(0)' => calc'.holdings = calc.holdings
    /\ (tx'.kind = "sell" /\ ~lookup'.raised /\ calc.holdings[tx'.token] = <<>>) =>
           /\ tx'.matches = 0
           /\ calc'.holdings = calc.holdings
           /\ calc'.pnl_records = Append(calc.pnl_records, 0)
           /\ calc'.realized_pnl = calc.realized_pnl
C4_Dropped == [][C4_DroppedStep]_vars

\* the only disposal so far, of a token whose earlier acquisition was priced
\* 0 (the cached 0 at an earlier timestamp is that acquisition's lookup)
C4_Witness ==
    /\ tx.kind = "sell" /\ ~lookup.raised /\ sells = 1 /\ n >= 2
    /\ tx.matches = 0
    /\ calc.pnl_records = <<0>>
    /\ \A t \in Tokens : calc.holdings[t] = <<>>
    /\ \E t \in 0..(tx.timestamp - 1) :
           /\ Cached(token_prices, t, tx.token)
           /\ token_prices[tx.token][Str(t)] = 0

\* C5: a disposal larger than the token's inventory consumes every lot and
\* leaves the queue empty without an error; no lot ever has a quantity <= 0;
\* an acquisition adds a lot of its full size whatever was disposed before.
C5_OverDisposalStep ==
    /\ (Disposed' /\ Need' > TotalQty(calc.holdings[tx'.token])) =>
           /\ calc'.holdings[tx'.token] = <<>>
           /\ tx'.matches = Len(calc.holdings[tx'.token])
           /\ tx'.left = Need' - TotalQty(calc.holdings[tx'.token])
           /\ ~tx'.err
           /\ calc'.pc = "events"
           /\ calc'.total_sales = calc.total_sales + 1
           /\ Len(calc'.pnl_records) = Len(calc.pnl_records) + 1
    /\ \A t \in Tokens : \A i \in 1..Len(calc'.holdings[t]) :
           calc'.holdings[t][i].amount > 0
    /\ \A p \in 1..MaxPrice : Acquired(p)' =>
           calc'.holdings[tx'.token] =
               Append(calc.holdings[tx'.token],
                      Lot(tx'.token_amount, p, tx'.timestamp))
C5_OverDisposal == [][C5_OverDisposalStep]_vars

C5_Witness ==
    /\ Disposed /\ ~tx.err
    /\ tx.matches >= 1 /\ tx.left > 0
    /\ calc.holdings[tx.token] = <<>>

\* C6: a disposal adds to the running total the sum over the consumed lots
\* of (timestamp - acquired_at) * matched / original need, once; no other
\* step changes the total; the reported average is the total / total_sales.
C6_HoldingStep ==
    /\ Disposed' =>
           (calc'.total_holding_time - calc.total_holding_time) * Need'
               = Scale * FifoAge(calc.holdings[tx'.token], Need', tx'.timestamp)
    /\ ~Disposed' => calc'.total_holding_time = calc.total_holding_time
    /\ (calc'.pc = "done" /\ calc'.total_sales > 0) =>
           LET avg == calc'.metrics.average_holding_time_seconds
           IN  /\ avg.den > 0
               /\ avg.num * calc'.total_sales * Scale
                      = calc'.total_holding_time * avg.den
C6_Holding == [][C6_HoldingStep]_vars

\* lots aged 2 and 1, one unit of each matched by a disposal of 2: 2/2 + 1/2,
\* as the spec's lots aged 100 and 200 matched 10 and 5 of 15
C6_Witness ==
    /\ Disposed /\ Need = 2 /\ tx.matches = 2
    /\ calc.total_sales = 1
    /\ calc.total_holding_time * 2 = 3 * Scale

\* C7: the returned total is realized + unrealized, realized is the sum of
\* the per-disposal PnLs, the two ratios are wins / total_sales * 100 and
\* total_holding_time / total_sales, and both are 0, with no division by
\* zero, when the list held no disposal.
C7_Metrics ==
    /\ calc.error # "ZeroDivisionError"
    /\ calc.realized_pnl = SumSeq(calc.pnl_records)
    /\ calc.pc = "done" =>
           LET m == calc.metrics
           IN  /\ m.total_pnl_usd = m.realized_pnl + m.unrealized_pnl
               /\ m.realized_pnl = SumSeq(calc.pnl_records)
               /\ m.unrealized_pnl = calc.unrealized_pnl
               /\ m.win_rate.den > 0
               /\ m.average_holding_time_seconds.den > 0
               /\ m.win_rate.num * calc.total_sales
                      = calc.wins * 100 * m.win_rate.den
               /\ m.average_holding_time_seconds.num * calc.total_sales * Scale
                      = calc.total_holding_time
                            * m.average_holding_time_seconds.den
               /\ sells = 0 =>
                      /\ m.win_rate.num = 0
                      /\ m.average_holding_time_seconds.num = 0
    /\ (calc.pc = "crashed" /\ sells = 0) => calc.error \in {"ClientError", "TypeError"}

C7_Witness ==
    /\ calc.pc = "done" /\ n > 0 /\ sells = 0
    /\ calc.metrics.unrealized_pnl # 0
    /\ calc.metrics.win_rate.num = 0

\* the step just taken met a failure while processing its event: a missing
\* key, a price lookup that raised, a price that is not a number
Failed ==
    \/ tx.kind = "malformed"
    \/ tx.kind \in {"buy", "sell"} /\ lookup.raised
    \/ tx.kind = "buy" /\ ~lookup.raised /\ ~IsNumber(lookup.price)
    \/ tx.kind = "sell" /\ tx.err

\* C9: an event whose processing fails is skipped with no effect on the
\* inventory, the realized PnL, the PnL list, total_sales, wins and the
\* total holding time.
C9_SkipStep ==
    Failed' =>
        /\ calc'.holdings = calc.holdings
        /\ calc'.realized_pnl = calc.realized_pnl
        /\ calc'.pnl_records = calc.pnl_records
        /\ calc'.total_sales = calc.total_sales
        /\ calc'.wins = calc.wins
        /\ calc'.total_holding_time = calc.total_holding_time
C9_SkipNoEffect == [][C9_SkipStep]_vars

SecondsAt(k) == TimeframeToSeconds(timeframe, seen[k].now)
Old(k) ==
    /\ seen[k].rec.blockTime.iso
    /\ ~SecondsAt(k).raised
    /\ seen[k].rec.blockTime.epoch < seen[k].now - SecondsAt(k).value
FirstOld ==
    IF \E k \in 1..Len(seen) : Old(k)
    THEN CHOOSE k \in 1..Len(seen) : Old(k) /\ \A j \in 1..(k - 1) : ~Old(j)
    ELSE Len(seen) + 1
Emits(k) ==
    /\ k < FirstOld
    /\ seen[k].rec.blockTime.iso /\ ~SecondsAt(k).raised
    /\ seen[k].rec.keys
    /\ seen[k].rec.mainAction = "unknown"
    /\ Len(seen[k].rec.balanceChange) = 2

\* C10: what wallet_history hands to calculate is oldest first and in the
\* reverse of the retrieval order, holds an event of no record older than
\* the cutoff, of no record served after the first such record, and holds
\* the event of every qualifying record served before it, also when the
\* paging ended on a failed fetch.
C10_Order ==
    hist.pc = "calc" =>
        LET handed == hist.handed
        IN  /\ \A i \in 1..(Len(handed) - 1) :
                   /\ handed[i].timestamp <= handed[i + 1].timestamp
                   /\ handed[i].src > handed[i + 1].src
            /\ \A i \in 1..Len(handed) :
                   /\ handed[i].src \in 1..Len(seen)
                   /\ Emits(handed[i].src)
                   /\ handed[i].timestamp = seen[handed[i].src].rec.blockTime.epoch
                   /\ handed[i].timestamp
                          >= seen[handed[i].src].now - SecondsAt(handed[i].src).value
            /\ \A k \in 1..Len(seen) :
                   Emits(k) => \E i \in 1..Len(handed) : handed[i].src = k

\* two events of different times collected from a full page, then a fetch
\* that fails
C10_Witness ==
    /\ hist.pc = "calc" /\ hist.stop = "failed"
    /\ Len(hist.handed) = 2
    /\ hist.handed[1].timestamp < hist.handed[2].timestamp

\* the place of a wallet in the input list
Index(w) == CHOOSE i \in 1..Len(Wallets) : Wallets[i] = w
Emitted(w) == \E k \in 1..Len(main.sorted_results) : main.sorted_results[k].wallet = w
RowOf(w) ==
    CHOOSE r \in {main.final_results[j] : j \in 1..Len(main.final_results)} :
        r.wallet = w

\* C8: when the run completes, a wallet has a row exactly when its balance
\* is strictly above minimum_wallet_capital and its metrics reach the three
\* thresholds (equality passes); the row is the wallet's metrics; no wallet
\* has two rows; the rows are in descending total_pnl_usd, rows of equal
\* total_pnl_usd in the order of the input list.
C8_ResultSet ==
    main.pc = "done" =>
        LET rows == main.sorted_results
            m(k) == rows[k].metrics
        IN  /\ \A i \in 1..Len(Wallets) :
                   Emitted(Wallets[i]) <=>
                       /\ main.results[i] > inputs.minimum_wallet_capital
                       /\ LET r == RowOf(Wallets[i])
                          IN  /\ r.metrics.win_rate.num
                                     >= inputs.minimum_win_rate * r.metrics.win_rate.den
                              /\ r.metrics.average_holding_time_seconds.num
                                     >= inputs.mimimum_average_holding_period
                                        * r.metrics.average_holding_time_seconds.den
                              /\ r.metrics.total_pnl_usd >= inputs.minimum_total_pnl
            /\ \A k \in 1..Len(rows) : rows[k] = RowOf(rows[k].wallet)
            /\ \A k, l \in 1..Len(rows) :
                   k < l =>
                       /\ rows[k].wallet # rows[l].wallet
                       /\ m(k).total_pnl_usd >= m(l).total_pnl_usd
                       /\ m(k).total_pnl_usd = m(l).total_pnl_usd
                              => Index(rows[k].wallet) < Index(rows[l].wallet)

\* a wallet left out for a balance equal to the minimum, and two rows of
\* equal total_pnl_usd, which is the minimum asked
C8_Witness ==
    /\ main.pc = "done"
    /\ \E i \in 1..Len(Wallets) : main.results[i] = inputs.minimum_wallet_capital
    /\ Len(main.sorted_results) = 2
    /\ main.sorted_results[1].metrics.total_pnl_usd
           = main.sorted_results[2].metrics.total_pnl_usd
    /\ inputs.minimum_total_pnl = main.sorted_results[1].metrics.total_pnl_usd

\* C3: no request that raises ends the run.
C3_NeverFatal == ~(main.pc = "crashed" /\ main.error = "ClientError")

\* the entries of a cache, as (token, timestamp, price)
Entries(prices) ==
    {<<token, ts, prices[token][Str(ts)]>> :
        <<token, ts>> \in {k \in (DOMAIN prices) \X (0..MaxDt) :
                              Str(k[2]) \in DOMAIN prices[k[1]]}}

\* C11: under every interleaving of the tasks at the await of line 153,
\* every entry a returned lookup has fetched is in the cache and in the
\* file, no token and no entry leaves the cache, and an entry changes only
\* by a fetch of its own key.
C11_NoLostUpdateStep ==
    /\ stored' \subseteq Entries(token_prices')
    /\ stored' \subseteq Entries(file')
    /\ DOMAIN token_prices \subseteq DOMAIN token_prices'
    /\ \A st \in Entries(token_prices) :
           \/ st \in Entries(token_prices')
           \/ /\ last'.op = "fetched"
              /\ last'.token = st[1] /\ last'.timestamp = st[2]
              /\ <<st[1], st[2], token_prices'[st[1]][Str(st[2])]>>
                     \in Entries(token_prices')
C11_NoLostUpdate == [][C11_NoLostUpdateStep]_vars

\* two tasks missed two timestamps of one token while both were waiting,
\* the token being new to the cache, and both fetches have returned
C11_Witness ==
    /\ last.op = "fetched" /\ last.overlap /\ last.token = "B"
    /\ \E a, b \in stored : a[1] = last.token /\ b[1] = last.token /\ a[2] # b[2]
    /\ \A t \in Tasks : lookups[t].pc = "idle" /\ lookups[t].calls = 1

\* C19: whenever a task is suspended or has returned, the file holds what
\* the cache holds, and a cache hit has written nothing.
C19_FileIsCache ==
    /\ file = token_prices
    /\ last.op = "hit" => ~last.saved

\* a hit while another task is suspended, after a fetch has been saved
C19_Witness ==
    /\ last.op = "hit"
    /\ stored # {}
    /\ \E t \in Tasks : lookups[t].pc = "waiting"
    /\ file # EmptyDict

\* C12: the paging loop ends; while it runs every page so far was full and
\* held no record older than the cutoff; when it has ended normally the last
\* request failed, or its page was short (an empty page too), or held the
\* first old record; no request is sent after the end; the first request
\* carries no cursor and each later one the hash of the last record of the
\* page before.
C12_PagingState ==
    LET last_request == requests[Len(requests)]
        InLastPage(k) == k >= last_request.first
    IN  /\ hist.pc = "paging" =>
               /\ FirstOld = Len(seen) + 1
               /\ \A j \in 1..Len(requests) :
                      requests[j].kind = "ok" /\ requests[j].len = Limit
        /\ hist.pc = "calc" =>
               /\ requests # <<>>
               /\ \A j \in 1..(Len(requests) - 1) :
                      requests[j].kind = "ok" /\ requests[j].len = Limit
               /\ hist.stop \in {"failed", "old", "short"}
               /\ hist.stop = "failed" <=> last_request.kind = "failed"
               /\ hist.stop = "old" <=>
                      FirstOld <= Len(seen) /\ InLastPage(FirstOld)
               /\ hist.stop = "short" <=>
                      /\ last_request.kind = "ok" /\ last_request.len < Limit
                      /\ FirstOld = Len(seen) + 1
        /\ \A j \in 1..Len(requests) :
               requests[j].before = IF j = 1 THEN 0
                                    ELSE seen[requests[j].first - 1].rec.txHash
        /\ \A j \in 2..Len(requests) : requests[j].before # 0
C12_PagingStep == hist.pc # "paging" => requests' = requests
C12_Paging ==
    /\ []C12_PagingState
    /\ [][C12_PagingStep]_vars
    /\ <>(hist.pc # "paging")

\* a history of exactly one full page: the second request carries the hash
\* of its last record and is answered with an empty page
C12_Witness ==
    /\ hist.pc = "calc" /\ hist.stop = "short"
    /\ Len(requests) = 2 /\ requests[2].len = 0
    /\ requests[2].before = seen[Limit].rec.txHash
    /\ Len(seen) = Limit

\* what C13 says of the k-th record served
Recognized(rec) ==
    rec.keys /\ rec.mainAction = "unknown" /\ Len(rec.balanceChange) = 2
InWindow(k) == k < FirstOld /\ ~SecondsAt(k).raised
EventsOf(k) == {i \in 1..Len(hist.txs) : hist.txs[i].src = k}
RecordRule(k) ==
    LET rec == seen[k].rec
    IN  IF InWindow(k) /\ rec.blockTime.iso /\ Recognized(rec)
        THEN /\ Cardinality(EventsOf(k)) = 1
             /\ \A i \in EventsOf(k) :
                    /\ hist.txs[i].token = rec.balanceChange[2].address
                    /\ hist.txs[i].token_amount * Pow10(rec.balanceChange[2].decimals)
                           = rec.balanceChange[2].amount
                    /\ hist.txs[i].solana_amount * Pow10(rec.balanceChange[1].decimals)
                           = rec.balanceChange[1].amount
                    /\ hist.txs[i].timestamp = rec.blockTime.epoch
        ELSE EventsOf(k) = {}

\* C13: a record in the window gives one event, built from its two legs,
\* exactly when it has the recognized action and two legs; a record that
\* lacks a field or has a bad time is passed over, it alone, and ends
\* neither the page nor the call.
C13_Qualification ==
    /\ hist.error # "KeyError"
    /\ \A k \in 1..Len(seen) : RecordRule(k)

\* (price - unit cost) * quantity summed over the lots of a queue
OpenValue(q, price) ==
    SumTo([i \in 1..Len(q) |-> (price - q[i].price) * q[i].amount], Len(q))

\* C14 as stated: at the end of the run a current price is looked up for
\* the tokens that have a lot left, and for no other.
C14_OpenTokensOnlyStep ==
    (calc.pc = "unrealized" /\ lookup'.made) => calc.holdings[calc.hkeys[calc.ui]] # <<>>
C14_UnrealizedStep ==
    /\ calc.pc = "events" => calc'.unrealized_pnl = 0
    /\ \A i, j \in 1..Len(calc'.hkeys) : calc'.hkeys[i] = calc'.hkeys[j] => i = j
    /\ \A t \in Tokens :
           calc'.holdings[t] # <<>> => \E i \in 1..Len(calc'.hkeys) : calc'.hkeys[i] = t
    /\ calc.pc = "unrealized" =>
           /\ lookup'.made
           /\ calc'.holdings = calc.holdings /\ calc'.hkeys = calc.hkeys
           /\ calc'.pc # "crashed" =>
                  /\ calc'.ui = calc.ui + 1
                  /\ calc'.unrealized_pnl =
                         calc.unrealized_pnl
                         + OpenValue(calc.holdings[calc.hkeys[calc.ui]], lookup'.price)
                  /\ calc'.pc = "done" <=> calc'.ui = Len(calc.hkeys) + 1
                  /\ calc'.pc = "unrealized" <=> calc'.ui <= Len(calc.hkeys)
C15_CountingStep ==
    /\ (tx'.kind = "sell" /\ ~Failed') => calc'.total_sales = calc.total_sales + 1
    /\ (tx'.kind # "sell" \/ Failed') => calc'.total_sales = calc.total_sales
    /\ Len(calc'.pnl_records) = calc'.total_sales
    /\ calc'.wins = Cardinality({i \in 1..Len(calc'.pnl_records) :
                                    calc'.pnl_records[i] > 0})
    /\ 0 <= calc'.wins /\ calc'.wins <= calc'.total_sales
C15_Counting == [][C15_CountingStep]_vars

\* C16: one balance request per wallet; no page or price request while a
\* balance request is unsent or unanswered; the rows are made only when
\* the task of every wallet above the minimum has returned; a wallet not
\* strictly above the minimum gets no page and no price request.
Above(w) ==
    IsNumber(runs[w].balance) /\ runs[w].balance > inputs.minimum_wallet_capital
C16_FanOut ==
    /\ \A w \in Ws : runs[w].sent.balance <= 1
    /\ main.pc \in {"histories", "done"} => \A w \in Ws : runs[w].sent.balance = 1
    /\ \A w \in Ws :
           runs[w].sent.page + runs[w].sent.price > 0 =>
               \A u \in Ws : runs[u].phase \notin {"new", "balance"}
    /\ main.pc = "done" =>
           /\ \A w \in Ws : Above(w) => runs[w].phase = "done"
           /\ Len(main.final_results) = Cardinality({w \in Ws : Above(w)})
    /\ main.pc # "done" => main.sorted_results = <<>>
    /\ \A w \in Ws : ~Above(w) => runs[w].sent.page = 0 /\ runs[w].sent.price = 0

\* a finished run with one wallet at the minimum, left out, and the other
\* above it, whose task has made page and price requests
C16_Witness ==
    /\ main.pc = "done"
    /\ \E w, u \in Ws :
           /\ runs[w].balance = inputs.minimum_wallet_capital
           /\ runs[w].phase = "out"
           /\ Above(u)
           /\ runs[u].sent.page = 2 /\ runs[u].sent.price >= 2

\* the conversion C17 states: the unit is what follows the digits
UnitOf(tf) ==
    IF Len(tf) >= 2 /\ tf[Len(tf) - 1] = "m" /\ tf[Len(tf)] = "i"
    THEN <<"m", "i">> ELSE <<tf[Len(tf)]>>
StatedSeconds(tf, now) ==
    IF tf = <<"a", "l", "l">> THEN now
    ELSE IntOf(SubSeq(tf, 1, Len(tf) - Len(UnitOf(tf))))
         * (CASE UnitOf(tf) = <<"s">> -> 1
              [] UnitOf(tf) = <<"m", "i">> -> 60
              [] UnitOf(tf) = <<"h">> -> 3600
              [] UnitOf(tf) = <<"d">> -> 86400
              [] UnitOf(tf) = <<"w">> -> 604800
              [] UnitOf(tf) = <<"m">> -> 2592000
              [] UnitOf(tf) = <<"y">> -> 31536000)

\* C17: on every record examined, timeframe_to_seconds returns, without
\* raising, n times the seconds of the unit, and for "all" the whole time
\* since epoch 0.
C17_Conversion ==
    \A k \in 1..Len(seen) :
        SecondsAt(k) = [raised |-> FALSE, value |-> StatedSeconds(timeframe, seen[k].now)]

\* q2 is q with k lots removed at the head and, possibly, the next lot
\* reduced to a smaller quantity above 0
HeadConsumed(q, q2) ==
    \E k \in 0..Len(q) :
        \/ q2 = SubSeq(q, k + 1, Len(q))
        \/ /\ k < Len(q)
           /\ \E a \in 1..(q[k + 1].amount - 1) :
                  q2 = <<[q[k + 1] EXCEPT !.amount = a]>> \o SubSeq(q, k + 2, Len(q))

\* C18: after every event every lot has a quantity and a unit cost above 0
\* and every queue is in acquisition order; an event changes at most the
\* queue of its own token, an acquisition by one lot of its amount and time
\* added at the tail, a disposal by lots taken or reduced at the head.
C18_InventoryStep ==
    /\ \A t \in Tokens : \A i \in 1..Len(calc'.holdings[t]) :
           /\ calc'.holdings[t][i].amount > 0
           /\ calc'.holdings[t][i].price > 0
           /\ i > 1 => calc'.holdings[t][i - 1].time <= calc'.holdings[t][i].time
    /\ \A t \in Tokens :
           \/ calc'.holdings[t] = calc.holdings[t]
           \/ /\ tx'.kind = "buy" /\ tx'.token = t
              /\ \E p \in 1..MaxPrice :
                     calc'.holdings[t] =
                         Append(calc.holdings[t],
                                [amount |-> tx'.token_amount, price |-> p,
                                 time |-> tx'.timestamp])
           \/ /\ tx'.kind = "sell" /\ tx'.token = t
              /\ HeadConsumed(calc.holdings[t], calc'.holdings[t])
C18_Inventory == [][C18_InventoryStep]_vars

\* a disposal has reduced the head lot of a queue of two lots of different
\* times
C18_Witness ==
    /\ tx.kind = "sell" /\ tx.partial
    /\ Len(calc.holdings[tx.token]) = 2
    /\ calc.holdings[tx.token][1].time < calc.holdings[tx.token][2].time
    /\ calc.holdings[tx.token][1].amount = 1

\* C20: with a fixed oracle and fixed sources, under every interleaving a
\* wallet whose task returns has the metrics it has when processed alone
\* from an empty cache, and a task ends with an exception only if it does
\* so alone; a step of one wallet's task changes no other wallet's history,
\* inventory or counters.
C20_IsolationStep ==
    /\ \A w \in Ws :
           /\ runs'[w].phase = "done" =>
                  /\ ~alone[w].failed
                  /\ runs'[w].calc.metrics = alone[w].metrics
           /\ runs'[w].phase = "crashed" /\ main.pc = "histories" => alone[w].failed
    /\ \A u \in Ws \ {last'.task} :
           /\ runs'[u].calc = runs[u].calc
           /\ runs'[u].h = runs[u].h
           /\ runs'[u].i = runs[u].i
           /\ runs'[u].sent = runs[u].sent
====
